---- MODULE Spec2Model ----
(***************************************************************************)
(* Widget identifiers of kas-core (crates/kas-core/src/core/widget_id.rs). *)
(*                                                                         *)
(* A WidgetId is one 64-bit word.  The word is modelled as a sequence of   *)
(* 16 nibbles, w[1] being bits 0..3 and w[16] bits 60..63: every shift     *)
(* and mask of the source acts on whole nibbles, except the tests of the   *)
(* two low bits, which are modelled on the bits of w[1].  A heap block is  *)
(* the sequence of usize words the source lays out,                        *)
(* <<ref_count, len, index_0, ..., index_{len-1}>>, the reference count    *)
(* being kept as a 64-bit word and the rest as numbers.                    *)
(***************************************************************************)
EXTENDS Integers, Sequences, FiniteSets, TLC

(* ----------------------------- bounds ---------------------------------- *)

\* longest path (number of indices) an identifier of the model is given
MaxDepth == 2

\* Child indices the modelled callers pass.  Blocks needed: 0 -> 1,
\* 300 -> 3, 1073741824 (2^30, 31 bits) -> 11.  <<300, 2^30>> fills the 14
\* blocks exactly and stays inline; <<2^30, 2^30>> needs 22 and goes out of
\* line.
Indices == {0, 300, 1073741824}

\* the identifier variables of the caller, as the tests hold id and id2
Slots == {1, 2}
\* the heap: one block per variable, and one more while `s = s.make_child(i)`
\* holds the parent and the child
Addrs == {8, 16, 24}

(* -------------------- 64-bit words as 16 nibbles ----------------------- *)

NIBBLES == 16
Nib == 1..NIBBLES

Bit(n, k) == (n \div (2 ^ k)) % 2

\* a | b and a & b on 4-bit values, tabulated
OrBits(a, b) ==
    LET f(k) == IF Bit(a, k) = 1 \/ Bit(b, k) = 1 THEN 2 ^ k ELSE 0
    IN  f(0) + f(1) + f(2) + f(3)
AndBits(a, b) ==
    LET f(k) == IF Bit(a, k) = 1 /\ Bit(b, k) = 1 THEN 2 ^ k ELSE 0
    IN  f(0) + f(1) + f(2) + f(3)
OrTable == [a \in 0..15 |-> [b \in 0..15 |-> OrBits(a, b)]]
AndTable == [a \in 0..15 |-> [b \in 0..15 |-> AndBits(a, b)]]
OrN(a, b) == OrTable[a][b]
AndN(a, b) == AndTable[a][b]

\* the word whose nibble k is f(k)
Word(f(_)) ==
    <<f(1), f(2), f(3), f(4), f(5), f(6), f(7), f(8),
      f(9), f(10), f(11), f(12), f(13), f(14), f(15), f(16)>>

ZeroWord == LET f(k) == 0 IN Word(f)
OrW(x, y) == LET f(k) == OrN(x[k], y[k]) IN Word(f)
AndW(x, y) == LET f(k) == AndN(x[k], y[k]) IN Word(f)
\* x << bits and x >> bits, bits a multiple of 4 below 64
Shl(x, bits) ==
    LET n == bits \div 4
        f(k) == IF k - n >= 1 THEN x[k - n] ELSE 0
    IN  Word(f)
Shr(x, bits) ==
    LET n == bits \div 4
        f(k) == IF k + n <= NIBBLES THEN x[k + n] ELSE 0
    IN  Word(f)

\* the u64 holding the number n (n is below 2^31, so nibbles 9.. are 0)
Pow16 == <<1, 16, 256, 4096, 65536, 1048576, 16777216, 268435456>>
ToWord(n) ==
    LET f(k) == IF k <= 8 THEN (n \div Pow16[k]) % 16 ELSE 0
    IN  Word(f)

RECURSIVE WordValFrom(_, _)
WordValFrom(w, k) ==
    IF k > 7 THEN 0 ELSE w[k] + 16 * WordValFrom(w, k + 1)
\* the number a word holds; used on words below 2^28 only
WordVal(w) == WordValFrom(w, 1)

\* x + 1 and x - 1 on 64 bits (wrapping), and x > y
IncW(x) ==
    LET f(k) == IF \A j \in 1..(k - 1) : x[j] = 15 THEN (x[k] + 1) % 16 ELSE x[k]
    IN  Word(f)
DecW(x) ==
    LET f(k) == IF \A j \in 1..(k - 1) : x[j] = 0 THEN (x[k] + 15) % 16 ELSE x[k]
    IN  Word(f)
GtW(x, y) ==
    \E k \in Nib : x[k] > y[k] /\ \A j \in (k + 1)..NIBBLES : x[j] = y[j]

(* --------------------------- constants --------------------------------- *)

INVALID == LET f(k) == 15 IN Word(f)
USE_BITS == 1
USE_PTR == 2
MASK_LEN == LET f(k) == IF k = 2 THEN 15 ELSE 0 IN Word(f)
SHIFT_LEN == 4
BLOCKS == 14
MASK_BITS == LET f(k) == IF k <= 2 THEN 0 ELSE 15 IN Word(f)
\* MASK_PTR clears the two low bits
MASK_PTR == LET f(k) == IF k = 1 THEN 12 ELSE 15 IN Word(f)

\* usize::MAX on the 64-bit target
USIZE_MAX == LET f(k) == 15 IN Word(f)
OneWord == ToWord(1)

USE_BITS_W == ToWord(USE_BITS)
USE_PTR_W == ToWord(USE_PTR)
ROOT == USE_BITS_W

(* ------------------------- values of the source ------------------------ *)

\* Option<T>: None is <<>>, Some(v) is <<v>>
None == <<>>
Some(v) == <<v>>

\* enum Variant
VInvalid == [kind |-> "Invalid", x |-> ZeroWord, path |-> <<>>]
VInt(x) == [kind |-> "Int", x |-> x, path |-> <<>>]
VSlice(path) == [kind |-> "Slice", x |-> ZeroWord, path |-> path]

\* the outcome of a call: it returns a value or it panics
Ret(v) == <<"ok", v>>
Panic == <<"panic">>
\* std::process::abort()
Abort == <<"abort">>
Returned(r) == r[1] = "ok"
Panicked(r) == r[1] = "panic"

(* ------------------------------ IntOrPtr ------------------------------- *)

\* IntOrPtr::get_ptr: Some(address) when the flag bit (bit 0, in the lowest
\* nibble) is clear
get_ptr(w) ==
    IF AndN(w[1], USE_BITS) = 0
    THEN Some(WordVal(AndW(w, MASK_PTR)))
    ELSE None

\* IntOrPtr::new_int: asserts the flag bit
new_int(x) ==
    IF AndW(x, USE_BITS_W) # ZeroWord /\ x # ZeroWord /\ get_ptr(x) = None
    THEN Ret(x)
    ELSE Panic

\* new_iter starting the count at 2
new_iter_block_count_two(items) == <<ToWord(2), Len(items)>> \o items

\* IntOrPtr::new_iter: the block <<ref_count = 1, len, items...>> placed at
\* the address p the allocator returns, and the word p | USE_PTR
new_iter_block(items) == <<OneWord, Len(items)>> \o items
new_iter_word(p) == OrW(ToWord(p), USE_PTR_W)

\* IntOrPtr::get, reading the heap m
get(w, m) ==
    IF get_ptr(w) # None
    THEN LET p == get_ptr(w)[1]
             len == m[p][2]
         IN  VSlice(SubSeq(m[p], 3, 2 + len))
    ELSE IF w = INVALID THEN VInvalid
    ELSE VInt(w)

(* ----------------------------- block codec ----------------------------- *)

\* the loop of encode setting no continuation flag
RECURSIVE encode_loop_no_flag(_, _, _)
encode_loop_no_flag(x, y, shift) ==
    IF x = 0 THEN <<y, shift>>
    ELSE encode_loop_no_flag(x \div 8,
                             OrW(y, Shl(ToWord(x % 8), shift)),
                             shift + 4)

\* the loop of encode: x is what is left of the index, y the blocks so far
RECURSIVE encode_loop(_, _, _)
encode_loop(x, y, shift) ==
    IF x = 0 THEN <<y, shift>>
    ELSE encode_loop(x \div 8,
                     OrW(y, Shl(ToWord(OrN(8, x % 8)), shift)),
                     shift + 4)

\* encode with the first block taken as the index's low four bits
encode_wide_first(index) == encode_loop(index \div 8, ToWord(index % 16), 4)

\* encode(index) = (blocks in the low bits of a u64, bit length).  The mask
\* to 48 bits leaves every index of the model (below 2^31) as it is.
encode(index) == encode_loop(index \div 8, ToWord(index % 8), 4)

\* block_len(x) = ((x & MASK_LEN) >> SHIFT_LEN) as u8
block_len(x) == WordVal(Shr(AndW(x, MASK_LEN), SHIFT_LEN))

\* the loop of next_from_bits: HIGH is bit 3 of the top nibble, TAKE its
\* three low bits
RECURSIVE next_loop(_, _, _)
next_loop(x, y, c) ==
    IF AndN(x[NIBBLES], 8) # 0
    THEN LET x2 == Shl(x, 4)
         IN  next_loop(x2, y * 8 + AndN(x2[NIBBLES], 7), c + 1)
    ELSE <<y, c>>

\* next_from_bits reading the first block alone
next_from_bits_first_block(x) == <<AndN(x[NIBBLES], 7), 1>>

\* next_from_bits keeping the continuation flag of the first block
next_from_bits_keeps_flag(x) == next_loop(x, x[NIBBLES], 1)

\* next_from_bits(x) = (index read from the highest bits of x, blocks used)
next_from_bits(x) == next_loop(x, AndN(x[NIBBLES], 7), 1)

\* BitsIter::new(bits) = BitsIter(len, bits & MASK_BITS)
BitsIter_new(bits) == <<block_len(bits), AndW(bits, MASK_BITS)>>

\* BitsIter ending after its first item
BitsIter_collect_first(it) ==
    IF it[1] = 0 THEN <<>> ELSE <<next_from_bits(it[2])[1]>>

\* BitsIter::next, run to the end: the items collected.  A chain that runs
\* past the remaining block count underflows the u8 counter.
RECURSIVE BitsIter_collect(_)
BitsIter_collect(it) ==
    IF it[1] = 0 THEN <<>>
    ELSE LET nb == next_from_bits(it[2])
         IN  IF nb[2] > it[1] THEN <<-1>>
             ELSE <<nb[1]>> \o BitsIter_collect(<<it[1] - nb[2], Shl(it[2], 4 * nb[2])>>)

(* ------------------------------ WidgetId ------------------------------- *)

IsPrefix(p, q) == Len(p) <= Len(q) /\ SubSeq(q, 1, Len(p)) = p

RECURSIVE bit_length(_)
\* 8 * size_of::<usize>() - index.leading_zeros()
bit_length(n) == IF n = 0 THEN 0 ELSE 1 + bit_length(n \div 2)

Max(a, b) == IF a >= b THEN a ELSE b
Min(a, b) == IF a <= b THEN a ELSE b

\* is_valid testing for the inline variant instead
is_valid_int_only(w, m) == get(w, m).kind = "Int"

\* WidgetId::is_valid
is_valid(w, m) == get(w, m) # VInvalid

\* the test of make_child for packing the index inline
fits_inline_off_by_one(req_bits, avail_blocks) == req_bits < 3 * avail_blocks
fits_inline(req_bits, avail_blocks) == req_bits <= 3 * avail_blocks

\* WidgetId::make_child.  An inline result is the word itself; an out-of-line
\* result is the items handed to IntOrPtr::new_iter, which allocates.
MadeInt(r) == [alloc |-> FALSE, word |-> r, items |-> <<>>]
MadeIter(items) == [alloc |-> TRUE, word |-> ZeroWord, items |-> items]
\* make_child never packing inline
make_child_always_heap(w, m, index) ==
    LET v == get(w, m) IN
    CASE v.kind = "Invalid" -> Panic
      [] v.kind = "Int" ->
            Ret(MadeIter(Append(BitsIter_collect(BitsIter_new(v.x)), index)))
      [] v.kind = "Slice" -> Ret(MadeIter(Append(v.path, index)))

make_child(w, m, index) ==
    LET v == get(w, m) IN
    CASE v.kind = "Invalid" -> Panic
      [] v.kind = "Int" ->
            LET self_x == v.x
                blen == block_len(self_x)
                avail_blocks == BLOCKS - blen
                req_bits == Max(bit_length(index), 1)
            IN  IF fits_inline(req_bits, avail_blocks)
                THEN LET e == encode(index)
                         bits == e[1]
                         bit_len == e[2]
                         used_blocks == bit_len \div 4
                         len == Shl(ToWord(blen + used_blocks), SHIFT_LEN)
                         rest == Shl(bits, 4 * avail_blocks - bit_len + 8)
                         id == OrW(OrW(OrW(AndW(self_x, MASK_BITS), rest), len),
                                   USE_BITS_W)
                     IN  IF used_blocks # (req_bits + 2) \div 3 THEN Panic
                         ELSE IF Panicked(new_int(id)) THEN Panic
                         ELSE Ret(MadeInt(new_int(id)[2]))
                ELSE Ret(MadeIter(Append(BitsIter_collect(BitsIter_new(self_x)), index)))
      [] v.kind = "Slice" -> Ret(MadeIter(Append(v.path, index)))

\* iter_path giving Invalid the empty path
iter_path_invalid_empty(w, m) ==
    LET v == get(w, m) IN
    CASE v.kind = "Invalid" -> Ret(<<>>)
      [] v.kind = "Int" -> Ret(BitsIter_collect(BitsIter_new(v.x)))
      [] v.kind = "Slice" -> Ret(v.path)

\* WidgetId::iter_path, collected
iter_path(w, m) ==
    LET v == get(w, m) IN
    CASE v.kind = "Invalid" -> Panic
      [] v.kind = "Int" -> Ret(BitsIter_collect(BitsIter_new(v.x)))
      [] v.kind = "Slice" -> Ret(v.path)

\* iter.zip(child.iter()).all(|(a, b)| a == *b): the pairs of the shorter
zip_all_eq(p, q) == \A k \in 1..Min(Len(p), Len(q)) : p[k] = q[k]

\* is_ancestor_of answering true for an out-of-line self and an inline child
is_ancestor_of_slice_int_true(a, b, m) ==
    LET va == get(a, m)
        vb == get(b, m)
    IN
    CASE va.kind = "Invalid" \/ vb.kind = "Invalid" -> FALSE
      [] va.kind = "Slice" /\ vb.kind = "Int" -> TRUE
      [] va.kind = "Int" /\ vb.kind = "Int" ->
            LET self_blocks == block_len(va.x)
                child_blocks == block_len(vb.x)
                shift == 4 * (BLOCKS - self_blocks) + 8
            IN  IF self_blocks > child_blocks THEN FALSE
                ELSE shift = 64 \/ Shr(va.x, shift) = Shr(vb.x, shift)
      [] va.kind = "Int" /\ vb.kind = "Slice" ->
            zip_all_eq(BitsIter_collect(BitsIter_new(va.x)), vb.path)
      [] va.kind = "Slice" /\ vb.kind = "Slice" -> IsPrefix(va.path, vb.path)

\* WidgetId::is_ancestor_of
is_ancestor_of(a, b, m) ==
    LET va == get(a, m)
        vb == get(b, m)
    IN
    CASE va.kind = "Invalid" \/ vb.kind = "Invalid" -> FALSE
      [] va.kind = "Slice" /\ vb.kind = "Int" -> FALSE
      [] va.kind = "Int" /\ vb.kind = "Int" ->
            LET self_blocks == block_len(va.x)
                child_blocks == block_len(vb.x)
                shift == 4 * (BLOCKS - self_blocks) + 8
            IN  IF self_blocks > child_blocks THEN FALSE
                ELSE shift = 64 \/ Shr(va.x, shift) = Shr(vb.x, shift)
      [] va.kind = "Int" /\ vb.kind = "Slice" ->
            zip_all_eq(BitsIter_collect(BitsIter_new(va.x)), vb.path)
      [] va.kind = "Slice" /\ vb.kind = "Slice" -> IsPrefix(va.path, vb.path)

\* WidgetId::index_of_child
index_of_child(a, b, m) ==
    LET va == get(a, m)
        vb == get(b, m)
    IN
    CASE va.kind = "Invalid" \/ vb.kind = "Invalid" -> None
      [] va.kind = "Slice" /\ vb.kind = "Int" -> None
      [] va.kind = "Int" /\ vb.kind = "Int" ->
            LET self_blocks == block_len(va.x)
                child_blocks == block_len(vb.x)
                shift == 4 * (BLOCKS - self_blocks) + 8
                next_bits == Shl(AndW(vb.x, MASK_BITS), 4 * self_blocks)
            IN  IF self_blocks >= child_blocks THEN None
                ELSE IF shift # 64 /\ Shr(va.x, shift) # Shr(vb.x, shift) THEN None
                ELSE Some(next_from_bits(next_bits)[1])
      [] va.kind = "Int" /\ vb.kind = "Slice" ->
            \* zip stops at the shorter side; child_iter then stands behind
            \* the pairs it gave
            LET sp == BitsIter_collect(BitsIter_new(va.x))
                taken == Min(Len(sp), Len(vb.path))
            IN  IF zip_all_eq(sp, vb.path)
                THEN IF Len(sp) < Len(vb.path) THEN Some(vb.path[taken + 1]) ELSE None
                ELSE None
      [] va.kind = "Slice" /\ vb.kind = "Slice" ->
            IF IsPrefix(va.path, vb.path)
            THEN IF Len(vb.path) > Len(va.path) THEN Some(vb.path[Len(va.path) + 1])
                 ELSE None
            ELSE None

\* eq comparing the words whatever the variants
eq_words(a, b, m) ==
    LET va == get(a, m)
        vb == get(b, m)
    IN
    CASE va.kind = "Invalid" \/ vb.kind = "Invalid" -> Panic
      [] OTHER -> Ret(a = b)

\* eq comparing the block counts alone of two inline identifiers
eq_block_len_only(a, b, m) ==
    LET va == get(a, m)
        vb == get(b, m)
    IN
    CASE va.kind = "Invalid" \/ vb.kind = "Invalid" -> Panic
      [] va.kind = "Int" /\ vb.kind = "Int" -> Ret(block_len(va.x) = block_len(vb.x))
      [] OTHER -> Ret(iter_path(a, m)[2] = iter_path(b, m)[2])

\* eq testing the left operand alone for Invalid
eq_checks_self_only(a, b, m) ==
    LET va == get(a, m)
        vb == get(b, m)
    IN
    CASE va.kind = "Invalid" -> Panic
      [] va.kind = "Int" /\ vb.kind = "Int" -> Ret(va.x = vb.x)
      [] vb.kind = "Invalid" -> Ret(FALSE)
      [] OTHER -> Ret(iter_path(a, m)[2] = iter_path(b, m)[2])

\* impl PartialEq for WidgetId
eq(a, b, m) ==
    LET va == get(a, m)
        vb == get(b, m)
    IN
    CASE va.kind = "Invalid" \/ vb.kind = "Invalid" -> Panic
      [] va.kind = "Int" /\ vb.kind = "Int" -> Ret(va.x = vb.x)
      [] OTHER -> Ret(iter_path(a, m)[2] = iter_path(b, m)[2])

\* impl Hash for WidgetId: the u64 words written to the hasher.  A u64 is
\* one write; a slice writes its length, then its elements.
RECURSIVE words_of(_)
words_of(path) ==
    IF path = <<>> THEN <<>> ELSE <<ToWord(Head(path))>> \o words_of(Tail(path))
hash(w, m) ==
    LET v == get(w, m) IN
    CASE v.kind = "Invalid" -> <<>>
      [] v.kind = "Int" -> <<v.x>>
      [] v.kind = "Slice" -> <<ToWord(Len(v.path))>> \o words_of(v.path)

\* as_u64 giving the path bits alone
as_u64_path_bits(w) == AndW(w, MASK_BITS)

\* IntOrPtr::as_u64 / WidgetId::as_u64
as_u64(w) == w

\* WidgetId::opt_to_u64, of an Option<&WidgetId>
opt_to_u64(id) == IF id = None THEN ZeroWord ELSE as_u64(id[1])

\* opt_from_u64 clearing the two tag bits of what it returns
opt_from_u64_clears_tag(n) ==
    IF n = ZeroWord THEN Ret(None)
    ELSE LET v == AndN(n[1], 3)
         IN  IF v = 1 \/ v = 2 THEN Ret(Some(AndW(n, MASK_PTR))) ELSE Panic

\* opt_from_u64 asserting only that a tag bit is set
opt_from_u64_any_tag(n) ==
    IF n = ZeroWord THEN Ret(None)
    ELSE LET v == AndN(n[1], 3)
         IN  IF v # 0 THEN Ret(Some(n)) ELSE Panic

\* IntOrPtr::opt_from_u64 / WidgetId::opt_from_u64.  NonZeroU64::new(n)
\* is Some on this branch, n being non-zero.
opt_from_u64(n) ==
    IF n = ZeroWord THEN Ret(None)
    ELSE LET v == AndN(n[1], 3)
         IN  IF v = 1 \/ v = 2 THEN Ret(Some(n)) ELSE Panic

\* A formatted string is the sequence of its characters.
HexDigits == <<"0", "1", "2", "3", "4", "5", "6", "7",
               "8", "9", "a", "b", "c", "d", "e", "f">>
Str_Hash == <<"#">>
Str_INVALID == <<"#", "I", "N", "V", "A", "L", "I", "D">>

\* the nibbles k, k-1, .., 1 of w as hex digits
RECURSIVE HexFrom(_, _)
HexFrom(w, k) == IF k = 0 THEN <<>> ELSE <<HexDigits[w[k] + 1]>> \o HexFrom(w, k - 1)

\* the highest non-zero nibble of w, 1 when w is 0
RECURSIVE TopNibble(_, _)
TopNibble(w, k) == IF k = 1 \/ w[k] # 0 THEN k ELSE TopNibble(w, k - 1)

\* {:x}: lowercase hex without leading zeros
LowerHex(w) == HexFrom(w, TopNibble(w, NIBBLES))

\* {:0>width$}: zeros on the left up to the width, nothing cut
RECURSIVE PadZeros(_, _)
PadZeros(str, width) ==
    IF Len(str) >= width THEN str ELSE PadZeros(<<"0">> \o str, width)

\* the loop of Display over a slice
RECURSIVE fmt_slice(_)
fmt_slice(path) ==
    IF path = <<>> THEN <<>>
    ELSE LET e == encode(Head(path))
             bits == e[1]
             bit_len == e[2]
         IN  PadZeros(LowerHex(bits), bit_len \div 4) \o fmt_slice(Tail(path))

\* Display printing an inline identifier without the padding
fmt_unpadded(w, m) ==
    LET v == get(w, m) IN
    CASE v.kind = "Invalid" -> Str_INVALID
      [] v.kind = "Int" ->
            LET len == block_len(v.x)
            IN  IF len = 0 THEN Str_Hash
                ELSE Str_Hash \o LowerHex(Shr(v.x, 4 * (BLOCKS - len) + 8))
      [] v.kind = "Slice" -> Str_Hash \o fmt_slice(v.path)

\* impl fmt::Display for WidgetId
fmt(w, m) ==
    LET v == get(w, m) IN
    CASE v.kind = "Invalid" -> Str_INVALID
      [] v.kind = "Int" ->
            LET len == block_len(v.x)
            IN  IF len = 0 THEN Str_Hash
                ELSE LET bits == Shr(v.x, 4 * (BLOCKS - len) + 8)
                     IN  Str_Hash \o PadZeros(LowerHex(bits), len)
      [] v.kind = "Slice" -> Str_Hash \o fmt_slice(v.path)

(* --------------------------- the state machine ------------------------- *)

VARIABLES
    ids,    \* ids[s]: the word of the Option<WidgetId> variable s, 0 for None
    mem,    \* mem[p]: the heap block at address p, <<>> when not allocated
    built,  \* built[s]: how the identifier in s was constructed (bookkeeping)
    last    \* the last call: its operands and what it returned

vars == <<ids, mem, built, last>>

NoId == ZeroWord
NotBuilt == [from |-> "none", path |-> <<>>]
NoParent == [word |-> ZeroWord, from |-> "none", path |-> <<>>]

\* the heap with no block allocated
ZeroMem == [p \in Addrs |-> <<>>]

\* arrays handed to new_iter directly, as test_partial_eq does
RECURSIVE SeqsUpTo(_)
SeqsUpTo(n) ==
    IF n = 0 THEN {<<>>}
    ELSE LET shorter == SeqsUpTo(n - 1)
         IN  shorter \cup {Append(q, i) : q \in {r \in shorter : Len(r) = n - 1}, i \in Indices}
Arrays == SeqsUpTo(MaxDepth) \ {<<>>}

\* the allocator: the address of a block not in use (the lowest one; which
\* one it is shows in as_u64 alone)
Free(m) == {p \in Addrs : m[p] = <<>>}
alloc(m) == CHOOSE p \in Free(m) : \A q \in Free(m) : p <= q

\* clone guarding against a count of 0 alone
clone_aborts_zero_only(w, m) ==
    /\ get_ptr(w) # None
    /\ m[get_ptr(w)[1]][1] = ZeroWord

\* impl Clone for IntOrPtr: whether it aborts, and the heap after the clone.
\* The reference count is the usize at the head of the block.
clone_aborts(w, m) ==
    /\ get_ptr(w) # None
    /\ LET ref_count == m[get_ptr(w)[1]][1]
       IN  ref_count = ZeroWord \/ ref_count = USIZE_MAX
\* clone copying the word and leaving the count
clone_mem_no_count(w, m) == m

clone_mem(w, m) ==
    IF get_ptr(w) # None
    THEN LET p == get_ptr(w)[1]
             ref_count == m[p][1]
         IN  [m EXCEPT ![p][1] = IncW(ref_count)]
    ELSE m

\* drop freeing the block while another handle is counted
drop_mem_frees_at_two(w, m) ==
    IF get_ptr(w) # None
    THEN LET p == get_ptr(w)[1]
             ref_count == m[p][1]
         IN  IF GtW(ref_count, ToWord(2))
             THEN [m EXCEPT ![p][1] = DecW(ref_count)]
             ELSE [m EXCEPT ![p] = <<>>]
    ELSE m

\* impl Drop for IntOrPtr: the heap after the drop
drop_mem(w, m) ==
    IF get_ptr(w) # None
    THEN LET p == get_ptr(w)[1]
             ref_count == m[p][1]
         IN  IF GtW(ref_count, OneWord)
             THEN [m EXCEPT ![p][1] = DecW(ref_count)]
             ELSE [m EXCEPT ![p] = <<>>]
    ELSE m

Call(op, a, b, idx, ret, parent, m2) ==
    [op |-> op, a |-> a, b |-> b, idx |-> idx, ret |-> ret, parent |-> parent,
     allocated |-> {p \in Addrs : mem[p] = <<>> /\ m2[p] # <<>>}]

Init ==
    /\ ids = [s \in Slots |-> NoId]
    /\ mem = [p \in Addrs |-> <<>>]
    /\ built = [s \in Slots |-> NotBuilt]
    /\ last = Call("init", 0, 0, 0, Ret(TRUE), NoParent, mem)

\* let t = WidgetId::ROOT
Root(t) ==
    /\ ids[t] = NoId
    /\ ids' = [ids EXCEPT ![t] = ROOT]
    /\ built' = [built EXCEPT ![t] = [from |-> "ROOT", path |-> <<>>]]
    /\ last' = Call("ROOT", 0, t, 0, Ret(TRUE), NoParent, mem)
    /\ UNCHANGED mem

\* let t = WidgetId::default()
Default(t) ==
    /\ ids[t] = NoId
    /\ ids' = [ids EXCEPT ![t] = INVALID]
    /\ built' = [built EXCEPT ![t] = [from |-> "default", path |-> <<>>]]
    /\ last' = Call("default", 0, t, 0, Ret(TRUE), NoParent, mem)
    /\ UNCHANGED mem

\* let t = WidgetId(IntOrPtr::new_iter(items))
NewIter(items, t) ==
    /\ ids[t] = NoId
    /\ Free(mem) # {}
    /\ LET p == alloc(mem) IN
       /\ mem' = [mem EXCEPT ![p] = new_iter_block(items)]
       /\ ids' = [ids EXCEPT ![t] = new_iter_word(p)]
       /\ built' = [built EXCEPT ![t] = [from |-> "new_iter", path |-> items]]
       /\ last' = Call("new_iter", 0, t, 0, Ret(TRUE), NoParent, mem')

\* t = s.make_child(index): `let t = s.make_child(index)` into an empty t,
\* or `s = s.make_child(index)`, which drops the parent once the child is made
MakeChild(s, index, t) ==
    /\ ids[s] # NoId
    /\ t = s \/ ids[t] = NoId
    /\ Len(built[s].path) < MaxDepth
    /\ Free(mem) # {}
    /\ LET r == make_child(ids[s], mem, index)
           p == alloc(mem)
           parent == [word |-> ids[s], from |-> built[s].from, path |-> built[s].path]
       IN  IF Panicked(r)
           THEN /\ last' = Call("make_child", s, t, index, Panic, parent, mem)
                /\ UNCHANGED <<ids, mem, built>>
           ELSE LET made == r[2]
                    word == IF made.alloc THEN new_iter_word(p) ELSE made.word
                    m1 == IF made.alloc
                          THEN [mem EXCEPT ![p] = new_iter_block(made.items)]
                          ELSE mem
                    m2 == IF t = s THEN drop_mem(ids[s], m1) ELSE m1
                IN  /\ ids' = [ids EXCEPT ![t] = word]
                    /\ mem' = m2
                    /\ built' = [built EXCEPT ![t] =
                                    [from |-> built[s].from,
                                     path |-> Append(built[s].path, index)]]
                    /\ last' = Call("make_child", s, t, index, Ret(word), parent, m1)

\* let t = s.clone()
Clone(s, t) ==
    /\ ids[s] # NoId
    /\ ids[t] = NoId
    /\ IF clone_aborts(ids[s], mem)
       THEN /\ last' = Call("clone", s, t, 0, Abort, NoParent, mem)
            /\ UNCHANGED <<ids, mem, built>>
       ELSE /\ mem' = clone_mem(ids[s], mem)
            /\ ids' = [ids EXCEPT ![t] = ids[s]]
            /\ built' = [built EXCEPT ![t] = built[s]]
            /\ last' = Call("clone", s, t, 0, Ret(TRUE), NoParent, mem')

\* drop(s)
Drop(s) ==
    /\ ids[s] # NoId
    /\ mem' = drop_mem(ids[s], mem)
    /\ ids' = [ids EXCEPT ![s] = NoId]
    /\ built' = [built EXCEPT ![s] = NotBuilt]
    /\ last' = Call("drop", s, 0, 0, Ret(TRUE), NoParent, mem')

\* the queries: they read two identifiers and change nothing
Query(op, a, b, ret) ==
    /\ last' = Call(op, a, b, 0, ret, NoParent, mem)
    /\ UNCHANGED <<ids, mem, built>>

\* a == b
Eq(a, b) ==
    /\ ids[a] # NoId /\ ids[b] # NoId
    /\ Query("eq", a, b, eq(ids[a], ids[b], mem))

\* a.is_ancestor_of(&b)
IsAncestorOf(a, b) ==
    /\ ids[a] # NoId /\ ids[b] # NoId
    /\ Query("is_ancestor_of", a, b, Ret(is_ancestor_of(ids[a], ids[b], mem)))

\* a.index_of_child(&b)
IndexOfChild(a, b) ==
    /\ ids[a] # NoId /\ ids[b] # NoId
    /\ Query("index_of_child", a, b, Ret(index_of_child(ids[a], ids[b], mem)))

\* a.iter_path().collect()
IterPath(a) ==
    /\ ids[a] # NoId
    /\ Query("iter_path", a, 0, iter_path(ids[a], mem))

\* a.is_valid()
IsValid(a) ==
    /\ ids[a] # NoId
    /\ Query("is_valid", a, 0, Ret(is_valid(ids[a], mem)))

\* a.hash(&mut hasher): what the hasher is fed
Hash(a) ==
    /\ ids[a] # NoId
    /\ Query("hash", a, 0, Ret(hash(ids[a], mem)))

\* format!("{}", a)
Display(a) ==
    /\ ids[a] # NoId
    /\ Query("fmt", a, 0, Ret(fmt(ids[a], mem)))

\* the u64 handed to opt_from_u64 and where the caller had it from
RawArg(n, from) == [word |-> n, from |-> from, path |-> <<>>]

\* IntOrPtr(w).get(), w being the word of the identifier in a, or, for an
\* out-of-line one, that word without the USE_PTR marker (the bare address
\* of its block, as Box::leak returned it)
Decode(a, bare) ==
    /\ ids[a] # NoId
    /\ bare => get_ptr(ids[a]) # None
    /\ LET w == IF bare THEN AndW(ids[a], MASK_PTR) ELSE ids[a]
       IN  last' = Call("get", a, 0, 0, Ret(get(w, mem)), RawArg(w, "word"), mem)
    /\ UNCHANGED <<ids, mem, built>>

\* indices handed to encode: 0, and around the powers of 8 where one more
\* block is needed, up to the largest the model's integers hold
CodecIndices ==
    {0, 1, 7, 8, 9, 27, 63, 64, 300, 321, 511, 512, 2132, 4095, 4096, 32767,
     32768, 262143, 262144, 2097151, 2097152, 16777215, 16777216, 134217727,
     134217728, 1073741823, 1073741824, 2147483647}

\* the bits that follow the last block of an index in a word
Rests ==
    {ZeroWord, INVALID,
     LET f(k) == 8 IN Word(f),
     LET f(k) == 7 IN Word(f)}

\* let (bits, bit_len) = encode(index)
EncodeIndex(index) ==
    /\ last' = Call("encode", 0, 0, index, Ret(encode(index)), NoParent, mem)
    /\ UNCHANGED <<ids, mem, built>>

\* next_from_bits(x), x being the blocks encode returned moved to the top
\* of the word (as make_child places them under an empty path), followed
\* by other bits
NextFromBits(rest) ==
    /\ last.op = "encode"
    /\ LET bits == last.ret[2][1]
           bit_len == last.ret[2][2]
           x == OrW(Shl(bits, 64 - bit_len), Shr(rest, bit_len))
       IN  last' = Call("next_from_bits", 0, 0, last.idx, Ret(next_from_bits(x)),
                        RawArg(x, "encode"), mem)
    /\ UNCHANGED <<ids, mem, built>>

\* the Option<&WidgetId> of a variable
OptRef(s) == IF ids[s] = NoId THEN None ELSE Some(ids[s])

\* a.as_u64()
AsU64(a) ==
    /\ ids[a] # NoId
    /\ Query("as_u64", a, 0, Ret(as_u64(ids[a])))

\* WidgetId::opt_to_u64(a.as_ref())
OptToU64(a) == Query("opt_to_u64", a, 0, Ret(opt_to_u64(OptRef(a))))

\* what opt_from_u64 returned, when it is an identifier
IsSome(r) == Returned(r) /\ r[2] # None

\* opt_from_u64 taking a reference, as clone does
OptFromU64_counts(t) ==
    /\ last.op \in {"as_u64", "opt_to_u64"}
    /\ ids[t] = NoId
    /\ LET n == last.ret[2]
           r == opt_from_u64(n)
       IN  /\ last' = Call("opt_from_u64", last.a, t, 0, r, RawArg(n, last.op), mem)
           /\ IF IsSome(r)
              THEN /\ ids' = [ids EXCEPT ![t] = r[2][1]]
                   /\ built' = [built EXCEPT ![t] = built[last.a]]
                   /\ mem' = clone_mem(n, mem)
              ELSE UNCHANGED <<ids, built, mem>>

\* let t = unsafe { WidgetId::opt_from_u64(n) }, n being the u64 the call
\* before returned, as a timer hands back the code it was given.  The count
\* of the block is left as it is.
OptFromU64(t) ==
    /\ last.op \in {"as_u64", "opt_to_u64"}
    /\ ids[t] = NoId
    /\ LET n == last.ret[2]
           r == opt_from_u64(n)
       IN  /\ last' = Call("opt_from_u64", last.a, t, 0, r, RawArg(n, last.op), mem)
           /\ IF IsSome(r)
              THEN /\ ids' = [ids EXCEPT ![t] = r[2][1]]
                   /\ built' = [built EXCEPT ![t] = built[last.a]]
              ELSE UNCHANGED <<ids, built>>
           /\ UNCHANGED mem

\* u64 values a caller writes itself: the "no identifier" value 0, and two
\* values with the low bits 00 and 11
RawLiterals == {ZeroWord, ToWord(4), ToWord(7)}

\* unsafe { WidgetId::opt_from_u64(n) } on a literal
OptFromLiteral(n) ==
    /\ ~IsSome(opt_from_u64(n))
    /\ last' = Call("opt_from_u64", 0, 0, 0, opt_from_u64(n), RawArg(n, "literal"), mem)
    /\ UNCHANGED <<ids, mem, built>>

\* what constructs, copies and drops identifiers
Build ==
    \/ \E t \in Slots : Root(t)
    \/ \E t \in Slots : Default(t)
    \/ \E items \in Arrays, t \in Slots : NewIter(items, t)
    \/ \E s \in Slots, i \in Indices, t \in Slots : MakeChild(s, i, t)
    \/ \E s \in Slots, t \in Slots : Clone(s, t)
    \/ \E s \in Slots : Drop(s)

\* The queries change no identifier and no block, so the identifiers and the
\* heap a caller can reach are those Build reaches, whichever queries it
\* makes.  Each specification below lets the caller build identifiers freely
\* and make the queries of one group.
SpecBuild == Init /\ [][Build]_vars

NextPath == Build \/ \E a \in Slots : IterPath(a)
SpecPath == Init /\ [][NextPath]_vars

NextEq == Build \/ \E a \in Slots, b \in Slots : Eq(a, b)
SpecEq == Init /\ [][NextEq]_vars

NextHash ==
    \/ Build
    \/ \E a \in Slots, b \in Slots : Eq(a, b)
    \/ \E a \in Slots : Hash(a)
SpecHash == Init /\ [][NextHash]_vars

NextKin ==
    \/ Build
    \/ \E a \in Slots, b \in Slots : IsAncestorOf(a, b)
    \/ \E a \in Slots, b \in Slots : IndexOfChild(a, b)
SpecKin == Init /\ [][NextKin]_vars

NextValid ==
    \/ Build
    \/ \E a \in Slots : IsValid(a)
    \/ \E a \in Slots, b \in Slots : IsAncestorOf(a, b)
    \/ \E a \in Slots, b \in Slots : IndexOfChild(a, b)
SpecValid == Init /\ [][NextValid]_vars

\* An identifier from opt_from_u64 is a second handle that the count of the
\* block does not know of: once it or the handle it was taken from is
\* dropped, the other may point to a freed block.  Using such a handle is
\* undefined behaviour; no step is taken from a state that holds one.
Dangling(w, m) == get_ptr(w) # None /\ m[get_ptr(w)[1]] = <<>>
NoDangling == \A s \in DOMAIN ids : ids[s] # NoId => ~Dangling(ids[s], mem)

NextRaw ==
    \/ NoDangling /\ Build
    \/ NoDangling /\ \E a \in Slots : AsU64(a)
    \/ NoDangling /\ \E t \in Slots : OptFromU64(t)
    \/ NoDangling /\ \E n \in RawLiterals : OptFromLiteral(n)
SpecRaw == Init /\ [][NextRaw]_vars

NextToU64 ==
    \/ Build
    \/ \E a \in Slots : AsU64(a)
    \/ \E a \in Slots : OptToU64(a)
SpecToU64 == Init /\ [][NextToU64]_vars

\* Reference counting alone: three variables, so that an identifier can be
\* cloned twice, holding identifiers of one index made by new_iter.
Handles == {1, 2, 3}
RcArrays == {<<i>> : i \in Indices}

InitRc ==
    /\ ids = [s \in Handles |-> NoId]
    /\ mem = [p \in Addrs |-> <<>>]
    /\ built = [s \in Handles |-> NotBuilt]
    /\ last = Call("init", 0, 0, 0, Ret(TRUE), NoParent, mem)

NextRc ==
    \/ \E items \in RcArrays, t \in Handles : NewIter(items, t)
    \/ \E s \in Handles, t \in Handles : Clone(s, t)
    \/ \E s \in Handles : Drop(s)
SpecRc == InitRc /\ [][NextRc]_vars

\* The guards of clone: the count a clone finds is whatever the block holds,
\* also one that counting from 1 does not reach.  The heap starts with one
\* block whose count is one of these, held by the first variable.
RefCounts == {ZeroWord, OneWord, ToWord(2), DecW(USIZE_MAX), USIZE_MAX}

InitCounts ==
    /\ \E items \in RcArrays, c \in RefCounts :
          /\ ids = [s \in Handles |-> IF s = 1 THEN new_iter_word(alloc(ZeroMem)) ELSE NoId]
          /\ mem = [ZeroMem EXCEPT ![alloc(ZeroMem)] = <<c, Len(items)>> \o items]
          /\ built = [s \in Handles |->
                        IF s = 1 THEN [from |-> "new_iter", path |-> items] ELSE NotBuilt]
    /\ last = Call("init", 0, 0, 0, Ret(TRUE), NoParent, mem)

\* process::abort() ends the process
Running == last.ret # Abort

NextCounts ==
    \/ Running /\ \E s \in Handles, t \in Handles : Clone(s, t)
    \/ Running /\ \E s \in Handles : Drop(s)
SpecCounts == InitCounts /\ [][NextCounts]_vars

NextDisplay == Build \/ \E a \in Slots : Display(a)
SpecDisplay == Init /\ [][NextDisplay]_vars

\* decoding words
NextDecode == Build \/ \E a \in Slots, bare \in BOOLEAN : Decode(a, bare)
SpecDecode == Init /\ [][NextDecode]_vars

\* the block codec alone
NextCodec ==
    \/ \E index \in CodecIndices : EncodeIndex(index)
    \/ \E rest \in Rests : NextFromBits(rest)
SpecCodec == Init /\ [][NextCodec]_vars

(* ------------------------------ the claims ----------------------------- *)

Valid(s) == ids[s] # NoId /\ ids[s] # INVALID
Inline(w) == get_ptr(w) = None /\ w # INVALID
OutOfLine(w) == get_ptr(w) # None
FromRoot(s) == built[s].from = "ROOT"
PathOf(s) == built[s].path

\* the minimum number of 4-bit blocks for an index: max(1, ceil(bitlen / 3))
MinBlocks(i) == Max(1, (bit_length(i) + 2) \div 3)
RECURSIVE PathBlocks(_)
PathBlocks(path) ==
    IF path = <<>> THEN 0 ELSE MinBlocks(Head(path)) + PathBlocks(Tail(path))

\* C1: an identifier built from ROOT by make_child(i) for each i of s, in
\* order, gives exactly s from iter_path(), inline or out-of-line.
C1_PathRoundTrip ==
    (last.op = "iter_path" /\ FromRoot(last.a))
        => last.ret = Ret(PathOf(last.a))

C1_Witness ==
    /\ last.op = "iter_path"
    /\ FromRoot(last.a)
    /\ OutOfLine(ids[last.a])
    /\ Len(PathOf(last.a)) = 2
    /\ last.ret = Ret(PathOf(last.a))

\* C2: a == b returns true iff the two valid identifiers have the same path
\* (the indices they were built from, which is what iter_path decodes),
\* whatever their variants.
C2_Equality ==
    (last.op = "eq" /\ Valid(last.a) /\ Valid(last.b))
        => /\ last.ret = Ret(PathOf(last.a) = PathOf(last.b))
           /\ last.ret = Ret(iter_path(ids[last.a], mem)[2] = iter_path(ids[last.b], mem)[2])

C2_Witness ==
    /\ last.op = "eq"
    /\ FromRoot(last.a) /\ Inline(ids[last.a])
    /\ built[last.b].from = "new_iter" /\ OutOfLine(ids[last.b])
    /\ Len(PathOf(last.a)) = 2
    /\ last.ret = Ret(TRUE)

\* C3: whenever a == b holds for two valid identifiers, hashing a and
\* hashing b feed the hasher the same data.
C3_HashConsistent ==
    (last.op = "eq" /\ Valid(last.a) /\ Valid(last.b) /\ last.ret = Ret(TRUE))
        => hash(ids[last.a], mem) = hash(ids[last.b], mem)

\* C4: for valid a and b, a.is_ancestor_of(&b) is true iff path(a) is a
\* prefix of path(b), in every combination of variants.
C4_Ancestry ==
    (last.op = "is_ancestor_of" /\ Valid(last.a) /\ Valid(last.b))
        => last.ret = Ret(IsPrefix(PathOf(last.a), PathOf(last.b)))

\* C5: for valid a and b, a.index_of_child(&b) is Some(k) iff path(a) is a
\* proper prefix of path(b), k being the element of path(b) that follows;
\* None otherwise, in every combination of variants.
C5_IndexOfChild ==
    (last.op = "index_of_child" /\ Valid(last.a) /\ Valid(last.b))
        => last.ret =
             Ret(IF IsPrefix(PathOf(last.a), PathOf(last.b))
                    /\ Len(PathOf(last.a)) < Len(PathOf(last.b))
                 THEN Some(PathOf(last.b)[Len(PathOf(last.a)) + 1])
                 ELSE None)

\* C6: for p built from ROOT and a descendant d made from p by one or more
\* make_child calls: p.is_ancestor_of(&d), p.index_of_child(&d) is the
\* first index appended, and d is no ancestor of p.
Descends(p, d) ==
    /\ FromRoot(p) /\ FromRoot(d)
    /\ Valid(p) /\ Valid(d)
    /\ IsPrefix(PathOf(p), PathOf(d))
    /\ Len(PathOf(p)) < Len(PathOf(d))
C6_ParentChild ==
    /\ (last.op = "is_ancestor_of" /\ Descends(last.a, last.b))
          => last.ret = Ret(TRUE)
    /\ (last.op = "index_of_child" /\ Descends(last.a, last.b))
          => last.ret = Ret(Some(PathOf(last.b)[Len(PathOf(last.a)) + 1]))
    /\ (last.op = "is_ancestor_of" /\ Descends(last.b, last.a))
          => last.ret = Ret(FALSE)

C6_Witness ==
    /\ last.op = "index_of_child"
    /\ Descends(last.a, last.b)
    /\ Inline(ids[last.a]) /\ OutOfLine(ids[last.b])
    /\ Len(PathOf(last.a)) = 1
    /\ last.ret = Ret(Some(1073741824))

\* C7: p.make_child(i) on a valid p is inline iff p is inline and the blocks
\* of p plus the minimum blocks of i are at most 14; inline or not, its path
\* is path(p) followed by i.
C7_VariantSelection ==
    (last.op = "make_child" /\ last.parent.word # INVALID)
        => /\ Returned(last.ret)
           /\ Inline(last.ret[2]) \/ OutOfLine(last.ret[2])
           /\ Inline(last.ret[2]) <=>
                 /\ Inline(last.parent.word)
                 /\ PathBlocks(last.parent.path) + MinBlocks(last.idx) <= BLOCKS
           /\ iter_path(ids[last.b], mem) = Ret(Append(last.parent.path, last.idx))
           /\ ids[last.b] = last.ret[2]

C7_Witness ==
    /\ last.op = "make_child"
    /\ Inline(last.parent.word)
    /\ PathBlocks(last.parent.path) + MinBlocks(last.idx) = BLOCKS
    /\ Returned(last.ret) /\ Inline(last.ret[2])

\* C8: a == b panics whenever a or b is Invalid.
C8_EqInvalidPanics ==
    (last.op = "eq" /\ (ids[last.a] = INVALID \/ ids[last.b] = INVALID))
        => Panicked(last.ret)

C8_Witness ==
    /\ last.op = "eq"
    /\ Valid(last.a)
    /\ ids[last.b] = INVALID
    /\ Panicked(last.ret)

\* C9: is_valid() returns, and returns true iff the identifier is not
\* Invalid (false for the default value, true for ROOT and what make_child
\* made of it); is_ancestor_of returns false and index_of_child None when
\* either operand is Invalid.
C9_InvalidPolicy ==
    /\ last.op = "is_valid"
          => /\ last.ret = Ret(ids[last.a] # INVALID)
             /\ built[last.a].from = "default" => last.ret = Ret(FALSE)
             /\ built[last.a].from \in {"ROOT", "new_iter"} => last.ret = Ret(TRUE)
    /\ (last.op = "is_ancestor_of" /\ (ids[last.a] = INVALID \/ ids[last.b] = INVALID))
          => last.ret = Ret(FALSE)
    /\ (last.op = "index_of_child" /\ (ids[last.a] = INVALID \/ ids[last.b] = INVALID))
          => last.ret = Ret(None)

C9_Witness ==
    /\ last.op = "is_valid"
    /\ OutOfLine(ids[last.a])
    /\ FromRoot(last.a)
    /\ last.ret = Ret(TRUE)

\* C10: make_child(i) and iter_path() on Invalid panic: no identifier is
\* made and nothing is allocated.
C10_InvalidPanics ==
    /\ (last.op = "make_child" /\ last.parent.word = INVALID)
          => /\ Panicked(last.ret)
             /\ last.allocated = {}
             /\ ids[last.b] = (IF last.b = last.a THEN INVALID ELSE NoId)
    /\ (last.op = "iter_path" /\ ids[last.a] = INVALID)
          => Panicked(last.ret)

C10_Witness ==
    /\ last.op = "make_child"
    /\ last.parent.word = INVALID
    /\ last.idx = 300
    /\ Panicked(last.ret)

\* the u64 given to the last opt_from_u64, and its two low bits
RawIn == last.parent.word
TagOf(n) == 2 * Bit(n[1], 1) + Bit(n[1], 0)

\* C11: for a valid identifier id, opt_from_u64(id.as_u64()) is Some(r), r
\* holding the very word of id (r.as_u64() = id.as_u64()), and r == id.
C11_RawRoundTrip ==
    (last.op = "opt_from_u64" /\ last.a \in Slots /\ Valid(last.a))
        => /\ RawIn = as_u64(ids[last.a])
           /\ IsSome(last.ret)
           /\ ids[last.b] = last.ret[2][1]
           /\ as_u64(ids[last.b]) = as_u64(ids[last.a])
           /\ eq(ids[last.b], ids[last.a], mem) = Ret(TRUE)

C11_Witness ==
    /\ last.op = "opt_from_u64"
    /\ last.a \in Slots /\ Valid(last.a)
    /\ OutOfLine(ids[last.a])
    /\ FromRoot(last.a)
    /\ IsSome(last.ret)
    /\ ids[last.b] = ids[last.a]

\* C12: on 0 and on what as_u64 or opt_to_u64 returned for any identifier,
\* the default one included, opt_from_u64 returns (None for 0, Some
\* otherwise) and does not panic.
C12_AlwaysSucceeds ==
    (last.op = "opt_from_u64"
        /\ (RawIn = ZeroWord \/ last.parent.from \in {"as_u64", "opt_to_u64"}))
        => /\ Returned(last.ret)
           /\ last.ret[2] = None <=> RawIn = ZeroWord

\* C13: opt_from_u64(0) is None; on n # 0 it panics iff the two low bits of
\* n are neither 01 nor 10, and otherwise returns Some identifier holding
\* exactly n.
C13_Validation ==
    last.op = "opt_from_u64"
        => /\ RawIn = ZeroWord => last.ret = Ret(None)
           /\ RawIn # ZeroWord =>
                 /\ Panicked(last.ret) <=> TagOf(RawIn) \notin {1, 2}
                 /\ ~Panicked(last.ret) =>
                       /\ last.ret = Ret(Some(RawIn))
                       /\ ids[last.b] = RawIn

C13_Witness ==
    /\ last.op = "opt_from_u64"
    /\ RawIn = INVALID
    /\ last.parent.from = "as_u64"
    /\ Panicked(last.ret)

\* C14: the word of every identifier is non-zero: whatever a constructor,
\* make_child or clone hands out is not 0, as_u64() never returns 0, and
\* opt_to_u64(x) is 0 iff x is None.
C14_NonZero ==
    /\ ROOT # ZeroWord /\ INVALID # ZeroWord
    /\ (last.op \in {"ROOT", "default", "new_iter"}) => ids[last.b] # ZeroWord
    /\ (last.op \in {"make_child", "clone"} /\ Returned(last.ret))
          => ids[last.b] # ZeroWord
    /\ (last.op = "make_child" /\ Returned(last.ret)) => last.ret[2] # ZeroWord
    /\ last.op = "as_u64" => last.ret[2] # ZeroWord
    /\ last.op = "opt_to_u64" => (last.ret[2] = ZeroWord <=> OptRef(last.a) = None)

C14_Witness ==
    /\ last.op = "opt_to_u64"
    /\ ids[last.a] = ROOT
    /\ last.ret = Ret(ROOT)

\* the block an out-of-line word points to, and the variables holding a word
PtrOf(w) == get_ptr(w)[1]
Holders(w) == {s \in DOMAIN ids : ids[s] = w}

\* C16: of the handles of one out-of-line identifier (the original and its
\* clones), dropped in any order, each drop but the last leaves the block
\* allocated with its contents, and the drop of the last one frees it: the
\* block is freed once, never early, and does not leak.
C16_DropStep ==
    (last'.op = "drop" /\ ids[last'.a] # NoId /\ OutOfLine(ids[last'.a]))
        => LET w == ids[last'.a]
               p == PtrOf(w)
           IN  /\ mem[p] # <<>>
               /\ ids'[last'.a] = NoId
               /\ IF Holders(w) = {last'.a}
                  THEN mem'[p] = <<>>
                  ELSE /\ mem'[p] # <<>>
                       /\ Tail(mem'[p]) = Tail(mem[p])
               /\ \A q \in Addrs \ {p} : mem'[q] = mem[q]
C16_RefCountLifecycle == [][C16_DropStep]_vars

C16_Witness ==
    /\ last.op = "drop"
    /\ \A s \in DOMAIN ids : ids[s] = NoId
    /\ mem = ZeroMem
    /\ DOMAIN ids = Handles

\* C17: cloning an out-of-line identifier whose count is 0 or usize::MAX
\* aborts, the count and the variables left as they were; on any other
\* count the count goes up by exactly 1.
C17_CloneStep ==
    (last'.op = "clone" /\ ids[last'.a] # NoId /\ OutOfLine(ids[last'.a]))
        => LET p == PtrOf(ids[last'.a])
               c == mem[p][1]
           IN  IF c = ZeroWord \/ c = USIZE_MAX
               THEN /\ last'.ret = Abort
                    /\ mem' = mem
                    /\ ids' = ids
               ELSE /\ Returned(last'.ret)
                    /\ GtW(mem'[p][1], c)
                    /\ DecW(mem'[p][1]) = c
                    /\ Tail(mem'[p]) = Tail(mem[p])
                    /\ ids'[last'.b] = ids[last'.a]
C17_CloneGuards == [][C17_CloneStep]_vars

C17_Witness ==
    /\ last.op = "clone"
    /\ last.ret = Abort
    /\ mem[PtrOf(ids[last.a])][1] = USIZE_MAX
    /\ ids[last.b] = NoId

\* C18: as_u64, opt_to_u64 and opt_from_u64 leave every block, its count
\* included, as it was; opt_from_u64 on the u64 of an out-of-line
\* identifier gives a second handle to the block with the count unchanged.
C18_RawStep ==
    (last'.op \in {"as_u64", "opt_to_u64", "opt_from_u64"})
        => /\ mem' = mem
           /\ (last'.op = "opt_from_u64" /\ IsSome(last'.ret) /\ OutOfLine(last'.ret[2][1]))
                 => /\ ids'[last'.b] = ids[last'.a]
                    /\ last'.b # last'.a
                    /\ ids'[last'.a] = ids[last'.a]
C18_RawFrame == [][C18_RawStep]_vars

C18_Witness ==
    /\ last.op = "opt_from_u64"
    /\ IsSome(last.ret)
    /\ OutOfLine(ids[last.b])
    /\ Holders(ids[last.b]) = {last.a, last.b}
    /\ last.a # last.b
    /\ mem[PtrOf(ids[last.b])][1] = OneWord

\* C19: t = p.make_child(i) leaves p as it was: its word, its path and, when
\* p is out-of-line, its block with its count.  An out-of-line result
\* points to a block that was not allocated before, holding count 1, the
\* length of p's path plus 1, p's indices in order and then i; no other
\* block changes.
C19_MakeChildStep ==
    (last'.op = "make_child" /\ Returned(last'.ret))
        => LET s == last'.a
               w == last'.ret[2]
               path == iter_path(ids[s], mem)[2]
           IN  /\ last'.b # s =>
                     /\ ids'[s] = ids[s]
                     /\ iter_path(ids'[s], mem') = Ret(path)
                     /\ OutOfLine(ids[s]) => mem'[PtrOf(ids[s])] = mem[PtrOf(ids[s])]
               /\ OutOfLine(w) =>
                     /\ mem[PtrOf(w)] = <<>>
                     /\ mem'[PtrOf(w)] = <<OneWord, Len(path) + 1>> \o path \o <<last'.idx>>
                     /\ last'.b # s => \A q \in Addrs \ {PtrOf(w)} : mem'[q] = mem[q]
               /\ (Inline(w) /\ last'.b # s) => mem' = mem
C19_MakeChildFresh == [][C19_MakeChildStep]_vars

C19_Witness ==
    /\ last.op = "make_child"
    /\ Returned(last.ret)
    /\ last.a # last.b
    /\ OutOfLine(ids[last.a]) /\ OutOfLine(ids[last.b])
    /\ PtrOf(ids[last.a]) # PtrOf(ids[last.b])
    /\ mem[PtrOf(ids[last.a])][1] = OneWord
    /\ mem[PtrOf(ids[last.b])][1] = OneWord

\* the identifier test_display and test_make_child build: ROOT and
\* make_child(i) for each i of seq in turn, all of them inline
RECURSIVE from_seq(_, _)
from_seq(id, seq) ==
    IF seq = <<>> THEN id
    ELSE from_seq(make_child(id, ZeroMem, Head(seq))[2].word, Tail(seq))

\* the blocks of an index, written out: n = MinBlocks(i) base-8 digits, the
\* most significant first, 8 added to all but the last
RECURSIVE Pow8(_)
Pow8(k) == IF k = 0 THEN 1 ELSE 8 * Pow8(k - 1)
BlocksOf(i) ==
    LET n == MinBlocks(i)
    IN  [k \in 1..n |-> ((i \div Pow8(n - k)) % 8) + (IF k < n THEN 8 ELSE 0)]
RECURSIVE PathBlockSeq(_)
PathBlockSeq(path) ==
    IF path = <<>> THEN <<>> ELSE BlocksOf(Head(path)) \o PathBlockSeq(Tail(path))
DigitsOf(blocks) == [k \in 1..Len(blocks) |-> HexDigits[blocks[k] + 1]]

\* C21: Invalid displays as "#INVALID", ROOT as "#", any other identifier
\* as "#" and then one lowercase hex digit per 4-bit block of its path, in
\* path order ([1,2,3] is "#123", [321] "#d81", [5,9,13] "#59195"), the
\* same for an inline and an out-of-line identifier of one path.
C21_Display ==
    /\ last.op = "fmt" =>
          last.ret = Ret(IF ids[last.a] = INVALID THEN Str_INVALID
                         ELSE Str_Hash \o DigitsOf(PathBlockSeq(PathOf(last.a))))
    /\ fmt(ROOT, ZeroMem) = <<"#">>
    /\ fmt(from_seq(ROOT, <<1, 2, 3>>), ZeroMem) = <<"#", "1", "2", "3">>
    /\ fmt(from_seq(ROOT, <<321>>), ZeroMem) = <<"#", "d", "8", "1">>
    /\ fmt(from_seq(ROOT, <<5, 9, 13>>), ZeroMem) = <<"#", "5", "9", "1", "9", "5">>

C21_Witness ==
    /\ last.op = "fmt"
    /\ built[last.a].from = "new_iter" /\ OutOfLine(ids[last.a])
    /\ PathOf(last.a) = <<0, 300>>
    /\ last.ret = Ret(<<"#", "0", "c", "d", "4">>)

\* the inline word of a path, written out: nibble 1 is 1 (bit 0 set, bits
\* 1..3 clear), nibble 2 the number n of blocks, nibbles 16, 15, .. the n
\* blocks of the path, and 0 between them and nibble 2
LayoutWord(path) ==
    LET blocks == PathBlockSeq(path)
        n == Len(blocks)
        f(k) == IF k = 1 THEN 1
                ELSE IF k = 2 THEN n
                ELSE IF NIBBLES + 1 - k <= n THEN blocks[NIBBLES + 1 - k]
                ELSE 0
    IN  Word(f)

\* C22: an identifier built from ROOT whose path takes n <= 14 blocks has
\* exactly the word: bit 0 set, bits 1..3 zero, n in bits 4..7, the blocks
\* of the path from bits 63..60 downward and zeros below them down to bit 8;
\* ROOT is the word 1.
C22_InlineLayout ==
    /\ \A s \in DOMAIN ids :
          (FromRoot(s) /\ PathBlocks(PathOf(s)) <= BLOCKS)
              => ids[s] = LayoutWord(PathOf(s))
    /\ ROOT = ToWord(1)
    /\ LayoutWord(<<>>) = ROOT
    \* test_make_child: [0, 1, 0] is (3 << 4) | (1 << 56) | USE_BITS
    /\ from_seq(ROOT, <<0, 1, 0>>) = <<1, 3, 0, 0, 0, 0, 0, 0, 0, 0, 0, 0, 0, 0, 1, 0>>
    \* test_make_child: [9, 0, 1, 300] is 0x9101cd4000000071
    /\ from_seq(ROOT, <<9, 0, 1, 300>>) = <<1, 7, 0, 0, 0, 0, 0, 0, 0, 4, 13, 12, 1, 0, 1, 9>>
    /\ LayoutWord(<<9, 0, 1, 300>>) = from_seq(ROOT, <<9, 0, 1, 300>>)

C22_Witness ==
    /\ last.op = "make_child"
    /\ FromRoot(last.b)
    /\ PathOf(last.b) = <<300, 1073741824>>
    /\ ids[last.b] = LayoutWord(PathOf(last.b))
    /\ ids[last.b][2] = BLOCKS

\* the blocks of an index in the low bits of a word, the last block lowest
EncodedWord(i) ==
    LET blocks == BlocksOf(i)
        n == Len(blocks)
        f(k) == IF k <= n THEN blocks[n + 1 - k] ELSE 0
    IN  Word(f)

\* C26: encode(i) gives exactly max(1, ceil(bitlen(i) / 3)) blocks, 3 bits
\* of i in each, the most significant first, the flag 8 on all but the
\* last; next_from_bits on those blocks at the top of a word returns i and
\* that number of blocks, whatever bits follow them.
C26_BlockCodec ==
    /\ last.op = "encode" =>
          /\ last.ret[2][2] = 4 * MinBlocks(last.idx)
          /\ last.ret[2][1] = EncodedWord(last.idx)
    /\ last.op = "next_from_bits" =>
          last.ret = Ret(<<last.idx, MinBlocks(last.idx)>>)
    \* test_next_from_bits: 0xC9A4_F300_0000_0000 is (2132, 4)
    /\ next_from_bits(<<0, 0, 0, 0, 0, 0, 0, 0, 0, 0, 3, 15, 4, 10, 9, 12>>) = <<2132, 4>>

C26_Witness ==
    /\ last.op = "next_from_bits"
    /\ last.idx = 2147483647
    /\ RawIn[1] = 15
    /\ last.ret = Ret(<<2147483647, 11>>)

\* made by a call to make_child (on ROOT or a descendant of it)
MadeByMakeChild(s) == FromRoot(s) /\ PathOf(s) # <<>>

\* C23 as stated, for any two identifiers: equal as_u64 values imply
\* a == b, and a == b with unequal as_u64 values happens only if both were
\* made by separate calls to make_child.
C23_AnyTwoIdentifiers ==
    last.op = "eq"
        => /\ as_u64(ids[last.a]) = as_u64(ids[last.b]) => last.ret = Ret(TRUE)
           /\ (as_u64(ids[last.a]) # as_u64(ids[last.b]) /\ last.ret = Ret(TRUE))
                 => MadeByMakeChild(last.a) /\ MadeByMakeChild(last.b)

\* C23: for two valid identifiers, equal as_u64 values imply a == b; when
\* a == b and the as_u64 values differ, at least one of the two is
\* out-of-line and they do not share a heap block, and if both were built
\* from ROOT then both are out-of-line, each made by its own make_child
\* call; two inline identifiers are equal iff their as_u64 values are.
C23_AsU64Compare ==
    (last.op = "eq" /\ Valid(last.a) /\ Valid(last.b))
        => LET a == ids[last.a]
               b == ids[last.b]
           IN  /\ as_u64(a) = as_u64(b) => last.ret = Ret(TRUE)
               /\ (as_u64(a) # as_u64(b) /\ last.ret = Ret(TRUE))
                     => /\ OutOfLine(a) \/ OutOfLine(b)
                        /\ (OutOfLine(a) /\ OutOfLine(b)) => PtrOf(a) # PtrOf(b)
                        /\ (FromRoot(last.a) /\ FromRoot(last.b))
                              => /\ OutOfLine(a) /\ OutOfLine(b)
                                 /\ MadeByMakeChild(last.a)
                                 /\ MadeByMakeChild(last.b)
               /\ (Inline(a) /\ Inline(b))
                     => last.ret = Ret(as_u64(a) = as_u64(b))

C23_Witness ==
    /\ last.op = "eq"
    /\ FromRoot(last.a) /\ FromRoot(last.b)
    /\ OutOfLine(ids[last.a]) /\ OutOfLine(ids[last.b])
    /\ as_u64(ids[last.a]) # as_u64(ids[last.b])
    /\ last.ret = Ret(TRUE)

\* C24: decoding a word whose low two bits are 00 as a pointer fails an
\* assertion on the USE_PTR marker: get never returns the slice behind
\* such a word.
C24_MarkerAsserted ==
    (last.op = "get" /\ TagOf(RawIn) = 0) => Panicked(last.ret)

\* C25: iter_path() on a valid identifier ends after exactly len(path)
\* items; the call leaves every identifier's word and every heap block
\* (count and contents) as they were, so that a further call yields the
\* same sequence, as does the call that directly follows.
C25_IterPathStep ==
    (last'.op = "iter_path" /\ last' # last /\ ids[last'.a] # INVALID)
        => /\ Returned(last'.ret)
           /\ Len(last'.ret[2]) = Len(PathOf(last'.a))
           /\ \A k \in DOMAIN last'.ret[2] : last'.ret[2][k] >= 0
           /\ ids' = ids
           /\ mem' = mem
           /\ iter_path(ids'[last'.a], mem') = last'.ret
           /\ (last.op = "iter_path" /\ last.a = last'.a) => last'.ret = last.ret
C25_IterPathRestartable == [][C25_IterPathStep]_vars

C25_Witness ==
    /\ last.op = "iter_path"
    /\ Inline(ids[last.a])
    /\ PathOf(last.a) = <<300, 1073741824>>
    /\ last.ret = Ret(<<300, 1073741824>>)
    /\ \E s \in Slots : s # last.a /\ ids[s] # NoId /\ OutOfLine(ids[s])

\* a pair of identifiers built from ROOT, the first out-of-line, the second
\* inline
SliceIntPair(a, b) ==
    /\ FromRoot(a) /\ FromRoot(b)
    /\ OutOfLine(ids[a]) /\ Inline(ids[b])

\* C27: among identifiers built from ROOT by make_child and clone, no
\* out-of-line a and inline b have path(a) a prefix of (or equal to)
\* path(b); so is_ancestor_of returning false and index_of_child returning
\* None for an out-of-line self and an inline argument is what the prefix
\* definition gives.
C27_SliceIntNeverPositive ==
    /\ \A a, b \in Slots :
          SliceIntPair(a, b)
              => /\ ~IsPrefix(PathOf(a), PathOf(b))
                 /\ is_ancestor_of(ids[a], ids[b], mem) = FALSE
                 /\ index_of_child(ids[a], ids[b], mem) = None
    /\ (last.op = "is_ancestor_of" /\ SliceIntPair(last.a, last.b))
          => last.ret = Ret(IsPrefix(PathOf(last.a), PathOf(last.b)))
    /\ (last.op = "index_of_child" /\ SliceIntPair(last.a, last.b))
          => /\ last.ret = Ret(None)
             /\ ~IsPrefix(PathOf(last.a), PathOf(last.b))

C27_Witness ==
    /\ last.op = "is_ancestor_of"
    /\ SliceIntPair(last.a, last.b)
    /\ PathOf(last.a) = <<1073741824, 1073741824>>
    /\ PathOf(last.b) = <<1073741824>>
    /\ last.ret = Ret(FALSE)

\* an inline word in normal form: n <= 14 blocks counted in bits 4..7, the
\* block bits below the n used blocks zero, the last used block without
\* the continuation flag
NormalForm(w) ==
    LET n == block_len(w)
    IN  /\ n \in 0..BLOCKS
        /\ w[1] = USE_BITS
        /\ \A k \in 3..(NIBBLES - n) : w[k] = 0
        /\ n > 0 => w[NIBBLES + 1 - n] < 8

\* C28: an identifier built from ROOT by make_child and clone is inline iff
\* the minimum block counts of its path add up to at most 14, and then its
\* word is in normal form with that block count and decodes to the path;
\* two such inline identifiers have equal words iff they have equal paths;
\* whoever has an out-of-line identifier's path as a prefix is out-of-line,
\* and make_child on an out-of-line identifier returns an out-of-line one.
C28_RepresentationOfPath ==
    /\ \A s \in Slots :
          (FromRoot(s) /\ Valid(s))
              => /\ Inline(ids[s]) <=> PathBlocks(PathOf(s)) <= BLOCKS
                 /\ OutOfLine(ids[s]) <=> PathBlocks(PathOf(s)) > BLOCKS
                 /\ Inline(ids[s])
                       => /\ NormalForm(ids[s])
                          /\ block_len(ids[s]) = PathBlocks(PathOf(s))
                          /\ iter_path(ids[s], mem) = Ret(PathOf(s))
    /\ \A s, t \in Slots :
          (FromRoot(s) /\ FromRoot(t) /\ Valid(s) /\ Valid(t))
              => /\ (Inline(ids[s]) /\ Inline(ids[t]))
                       => (ids[s] = ids[t] <=> PathOf(s) = PathOf(t))
                 /\ (OutOfLine(ids[s]) /\ IsPrefix(PathOf(s), PathOf(t)))
                       => OutOfLine(ids[t])
    /\ (last.op = "make_child" /\ OutOfLine(last.parent.word))
          => Returned(last.ret) /\ OutOfLine(last.ret[2])

C28_Witness ==
    \E s, t \in Slots :
        /\ FromRoot(s) /\ FromRoot(t)
        /\ Inline(ids[s]) /\ PathOf(s) = <<1073741824, 300>>
        /\ block_len(ids[s]) = BLOCKS
        /\ OutOfLine(ids[t]) /\ PathOf(t) = <<1073741824, 1073741824>>

\* the live identifiers pointing to the block at p
Owners(p) ==
    {s \in DOMAIN ids : ids[s] # NoId /\ OutOfLine(ids[s]) /\ PtrOf(ids[s]) = p}

\* every allocated block is counted by its owners, of which there is one at
\* least (a block nobody points to has been freed), and every out-of-line
\* identifier points to an allocated block
CountsMatch ==
    /\ \A p \in Addrs :
          mem[p] # <<>>
              => /\ Owners(p) # {}
                 /\ mem[p][1] = ToWord(Cardinality(Owners(p)))
                 /\ GtW(mem[p][1], ZeroWord)
    /\ \A s \in DOMAIN ids :
          (ids[s] # NoId /\ OutOfLine(ids[s])) => mem[PtrOf(ids[s])] # <<>>

\* C29: through any sequence of make_child, clone and drop, every block
\* that is allocated has a reference count equal to the number of live
\* identifiers pointing to it, which is at least 1; no live identifier
\* points to a freed block and no block is left without one; clone and
\* drop of Invalid, ROOT and inline identifiers change no block.
C29_Step ==
    /\ CountsMatch
    /\ CountsMatch'
    /\ (last'.op \in {"clone", "drop"} /\ ~OutOfLine(ids[last'.a])) => mem' = mem
C29_RefCountInvariant == [][C29_Step]_vars

C29_Witness ==
    /\ last.op = "drop"
    /\ \E s \in Slots :
          /\ FromRoot(s) /\ OutOfLine(ids[s])
          /\ mem[PtrOf(ids[s])][1] = OneWord
          /\ Cardinality({p \in Addrs : mem[p] # <<>>}) = 1

\* C30: r = opt_from_u64(id.as_u64()) on a live out-of-line id made by
\* make_child from ROOT, then drop(r): the drop does not free the block of
\* id, and leaves its count at no less than the number of the other live
\* identifiers pointing to it.
C30_DropOfRawStep ==
    (/\ last.op = "opt_from_u64" /\ IsSome(last.ret)
     /\ OutOfLine(last.ret[2][1])
     /\ FromRoot(last.a)
     /\ last'.op = "drop" /\ last'.a = last.b)
        => LET p == PtrOf(ids[last.b])
               others == Owners(p) \ {last.b}
           IN  /\ last.a \in others
               /\ mem'[p] # <<>>
               /\ ~GtW(ToWord(Cardinality(others)), mem'[p][1])
C30_NoPrematureFree == [][C30_DropOfRawStep]_vars

====
